---- MODULE Spec2Model ----
(***************************************************************************)
(* Model of the ARMv6-M Thumb instruction parser (src/src/lib.rs,          *)
(* src/src/registers.rs, src/src/conditions.rs, src/src/instructons.rs).   *)
(*                                                                         *)
(* The library is a set of pure functions.  The state machine is a caller  *)
(* that picks a function and its arguments (Init) and calls it (one action *)
(* per function); `ret` holds what the call returned.                      *)
(*                                                                         *)
(* Machine integers: u8, u16 and usize values are naturals kept within     *)
(* their width by the operators below.  A u32 does not fit the checker's   *)
(* integers, so a u32 is a bit vector: a function from bit index 0..31 to  *)
(* {0, 1}, bit 0 being the least significant.                              *)
(***************************************************************************)
EXTENDS Integers, Sequences, FiniteSets, TLC

VARIABLES pc, fn, arg, ret

vars == <<pc, fn, arg, ret>>

(***************************************************************************)
(* Bit operations on naturals (u8 / u16 operands).                         *)
(***************************************************************************)
RECURSIVE BitAnd(_, _)
BitAnd(a, b) ==
    IF a = 0 \/ b = 0 THEN 0
    ELSE (IF a % 2 = 1 /\ b % 2 = 1 THEN 1 ELSE 0) + 2 * BitAnd(a \div 2, b \div 2)

RECURSIVE BitOr(_, _)
BitOr(a, b) ==
    IF a = 0 THEN b
    ELSE IF b = 0 THEN a
    ELSE (IF a % 2 = 1 \/ b % 2 = 1 THEN 1 ELSE 0) + 2 * BitOr(a \div 2, b \div 2)

\* x >> n on an unsigned value
Shr(x, n) == x \div (2 ^ n)

\* x << n on a u16: bits shifted past bit 15 are lost
Shl16(x, n) == (x * (2 ^ n)) % 65536

\* `x as u8` of a u16
AsU8(x) == x % 256

\* `x as i16` of a u16: reinterpretation in two's complement
AsI16(x) == IF x >= 32768 THEN x - 65536 ELSE x

\* x >> n on a signed value: arithmetic shift, rounds towards minus infinity
Sar(x, n) == IF x >= 0 THEN x \div (2 ^ n) ELSE -(((-x - 1) \div (2 ^ n)) + 1)

(***************************************************************************)
(* u32 values as bit vectors.                                              *)
(***************************************************************************)
BitIdx32 == 0..31

\* bit i (0..30) of a natural
NatBit(n, i) == (n \div (2 ^ i)) % 2

\* `n as u32` of a natural below 2^31 (u8, u16 and literals)
U32(n) == [i \in BitIdx32 |-> IF i < 31 THEN NatBit(n, i) ELSE 0]

\* `z as u32` of a signed value (i16 widened to i32): two's complement
I32AsU32(z) ==
    [i \in BitIdx32 |->
        IF z >= 0
        THEN (IF i < 31 THEN NatBit(z, i) ELSE 0)
        ELSE (IF i < 31 THEN 1 - NatBit(-z - 1, i) ELSE 1)]

And32(a, b) == [i \in BitIdx32 |-> IF a[i] = 1 /\ b[i] = 1 THEN 1 ELSE 0]
Or32(a, b)  == [i \in BitIdx32 |-> IF a[i] = 1 \/ b[i] = 1 THEN 1 ELSE 0]
Xor32(a, b) == [i \in BitIdx32 |-> IF a[i] # b[i] THEN 1 ELSE 0]
Not32(a)    == [i \in BitIdx32 |-> 1 - a[i]]

\* a << n on a u32: bits shifted past bit 31 are lost
Shl32(a, n) == [i \in BitIdx32 |-> IF i >= n THEN a[i - n] ELSE 0]

\* a >> n on a u32: logical shift
Shr32(a, n) == [i \in BitIdx32 |-> IF i + n <= 31 THEN a[i + n] ELSE 0]

\* (a as i32) >> n: arithmetic shift, the sign bit fills the top
Sar32(a, n) == [i \in BitIdx32 |-> IF i + n <= 31 THEN a[i + n] ELSE a[31]]

\* the value of the low k bits (k <= 30) of a u32 as a natural
RECURSIVE LowVal32(_, _)
LowVal32(a, k) == IF k = 0 THEN 0 ELSE LowVal32(a, k - 1) + a[k - 1] * (2 ^ (k - 1))

\* `a as u8` of a u32
U32AsU8(a) == LowVal32(a, 8)

\* the natural a u32 holds, for values below 2^30 (masked bit fields)
Val32(a) == LowVal32(a, 30)

(***************************************************************************)
(* Result values.                                                          *)
(***************************************************************************)
Ok(v)  == [tag |-> "Ok", val |-> v]
Err(e) == [tag |-> "Err", err |-> e]

\* the unit error `()` of lib.rs and of SpecialRegister::try_from
Unit == "()"

\* what a call leaves when it panics (unwrap of an Err, slice out of range)
Panic == [tag |-> "Panic"]

\* Result::unwrap: the value of an Ok; an Err panics
Unwrap(r) == IF r.tag = "Ok" THEN r.val ELSE "panic"

(***************************************************************************)
(* conditions.rs: enum Condition and TryFrom<u8> for Condition.            *)
(***************************************************************************)
\* the discriminants of the enum, read by `cond as u8`
Condition_as_u8(c) ==
    CASE c = "EQ" -> 0   [] c = "NE" -> 1   [] c = "CS" -> 2   [] c = "CC" -> 3
      [] c = "MI" -> 4   [] c = "PL" -> 5   [] c = "VS" -> 6   [] c = "VC" -> 7
      [] c = "HI" -> 8   [] c = "LS" -> 9   [] c = "GE" -> 10  [] c = "LT" -> 11
      [] c = "GT" -> 12  [] c = "LE" -> 13  [] c = "None" -> 14

\* a variant of Condition_try_from that falls back to the unconditional
\* condition instead of failing
Condition_try_from_default(value) ==
    CASE value = 0 -> Ok("EQ")   [] value = 1 -> Ok("NE")
      [] value = 2 -> Ok("CS")   [] value = 3 -> Ok("CC")
      [] value = 4 -> Ok("MI")   [] value = 5 -> Ok("PL")
      [] value = 6 -> Ok("VS")   [] value = 7 -> Ok("VC")
      [] value = 8 -> Ok("HI")   [] value = 9 -> Ok("LS")
      [] value = 10 -> Ok("GE")  [] value = 11 -> Ok("LT")
      [] value = 12 -> Ok("GT")  [] value = 13 -> Ok("LE")
      [] OTHER -> Ok("None")

Condition_try_from(value) ==
    CASE value = 0 -> Ok("EQ")   [] value = 1 -> Ok("NE")
      [] value = 2 -> Ok("CS")   [] value = 3 -> Ok("CC")
      [] value = 4 -> Ok("MI")   [] value = 5 -> Ok("PL")
      [] value = 6 -> Ok("VS")   [] value = 7 -> Ok("VC")
      [] value = 8 -> Ok("HI")   [] value = 9 -> Ok("LS")
      [] value = 10 -> Ok("GE")  [] value = 11 -> Ok("LT")
      [] value = 12 -> Ok("GT")  [] value = 13 -> Ok("LE")
      [] value = 14 -> Ok("None")
      [] OTHER -> Err("InvalidCondition")

(***************************************************************************)
(* registers.rs: Register, SpecialRegister, register_list_from_bit_array.  *)
(***************************************************************************)
\* the discriminants of the enum, read by `reg as u8` / `reg as u32`
Register_as_u8(r) ==
    CASE r = "R0" -> 0    [] r = "R1" -> 1    [] r = "R2" -> 2    [] r = "R3" -> 3
      [] r = "R4" -> 4    [] r = "R5" -> 5    [] r = "R6" -> 6    [] r = "R7" -> 7
      [] r = "R8" -> 8    [] r = "R9" -> 9    [] r = "R10" -> 10  [] r = "R11" -> 11
      [] r = "R12" -> 12  [] r = "SP" -> 13   [] r = "LR" -> 14   [] r = "PC" -> 15

\* a variant of Register_try_from that uses only the low four bits
Register_try_from_masked(value) ==
    LET v == value % 16
    IN  CASE v = 0 -> Ok("R0")    [] v = 1 -> Ok("R1")
          [] v = 2 -> Ok("R2")    [] v = 3 -> Ok("R3")
          [] v = 4 -> Ok("R4")    [] v = 5 -> Ok("R5")
          [] v = 6 -> Ok("R6")    [] v = 7 -> Ok("R7")
          [] v = 8 -> Ok("R8")    [] v = 9 -> Ok("R9")
          [] v = 10 -> Ok("R10")  [] v = 11 -> Ok("R11")
          [] v = 12 -> Ok("R12")  [] v = 13 -> Ok("SP")
          [] v = 14 -> Ok("LR")   [] v = 15 -> Ok("PC")

Register_try_from(value) ==
    CASE value = 0 -> Ok("R0")    [] value = 1 -> Ok("R1")
      [] value = 2 -> Ok("R2")    [] value = 3 -> Ok("R3")
      [] value = 4 -> Ok("R4")    [] value = 5 -> Ok("R5")
      [] value = 6 -> Ok("R6")    [] value = 7 -> Ok("R7")
      [] value = 8 -> Ok("R8")    [] value = 9 -> Ok("R9")
      [] value = 10 -> Ok("R10")  [] value = 11 -> Ok("R11")
      [] value = 12 -> Ok("R12")  [] value = 13 -> Ok("SP")
      [] value = 14 -> Ok("LR")   [] value = 15 -> Ok("PC")
      [] OTHER -> Err("Not a valid register.")

\* the discriminants of the enum
SpecialRegister_as_u8(r) ==
    CASE r = "APSR" -> 0   [] r = "IAPSR" -> 1  [] r = "EAPSR" -> 2
      [] r = "XPSR" -> 3   [] r = "IPSR" -> 5   [] r = "EPSR" -> 6
      [] r = "IEPSR" -> 7  [] r = "MSP" -> 8    [] r = "PSP" -> 9
      [] r = "PRIMASK" -> 16  [] r = "CONTROL" -> 20

\* a variant of SpecialRegister_try_from with a dense 0..9 range: code 4
\* is taken for IPSR
SpecialRegister_try_from_dense(value) ==
    CASE value = 0 -> Ok("APSR")    [] value = 1 -> Ok("IAPSR")
      [] value = 2 -> Ok("EAPSR")   [] value = 3 -> Ok("XPSR")
      [] value = 4 -> Ok("IPSR")
      [] value = 5 -> Ok("IPSR")    [] value = 6 -> Ok("EPSR")
      [] value = 7 -> Ok("IEPSR")   [] value = 8 -> Ok("MSP")
      [] value = 9 -> Ok("PSP")     [] value = 16 -> Ok("PRIMASK")
      [] value = 20 -> Ok("CONTROL")
      [] OTHER -> Err(Unit)

SpecialRegister_try_from(value) ==
    CASE value = 0 -> Ok("APSR")    [] value = 1 -> Ok("IAPSR")
      [] value = 2 -> Ok("EAPSR")   [] value = 3 -> Ok("XPSR")
      [] value = 5 -> Ok("IPSR")    [] value = 6 -> Ok("EPSR")
      [] value = 7 -> Ok("IEPSR")   [] value = 8 -> Ok("MSP")
      [] value = 9 -> Ok("PSP")     [] value = 16 -> Ok("PRIMASK")
      [] value = 20 -> Ok("CONTROL")
      [] OTHER -> Err(Unit)

\* the loop `for i in 0..16`, from index i on, with the vector built so far
RECURSIVE register_list_loop(_, _, _)
register_list_loop(bit_array, i, acc) ==
    IF i >= 16 THEN acc
    ELSE IF BitAnd(Shr(bit_array, i), 1) = 1
         THEN register_list_loop(bit_array, i + 1,
                                 Append(acc, Unwrap(Register_try_from(i))))
         ELSE register_list_loop(bit_array, i + 1, acc)

\* a variant of the loop that runs `for i in 0..15`
RECURSIVE register_list_loop_0_15(_, _, _)
register_list_loop_0_15(bit_array, i, acc) ==
    IF i >= 15 THEN acc
    ELSE IF BitAnd(Shr(bit_array, i), 1) = 1
         THEN register_list_loop_0_15(bit_array, i + 1,
                                      Append(acc, Unwrap(Register_try_from(i))))
         ELSE register_list_loop_0_15(bit_array, i + 1, acc)

register_list_from_bit_array_0_15(bit_array) ==
    register_list_loop_0_15(bit_array, 0, <<>>)

register_list_from_bit_array(bit_array) == register_list_loop(bit_array, 0, <<>>)

(***************************************************************************)
(* lib.rs: trait SignExtend.  With valid_bits between 1 and the width of   *)
(* self neither the subtraction nor the shifts leave their range.  With    *)
(* any other valid_bits `width - valid_bits` underflows or the shift        *)
(* amount reaches the width: the call panics where overflow checks are on  *)
(* and shifts by a masked amount where they are off.  Neither outcome is   *)
(* a sign extension; ShiftOverflow stands for both.                        *)
(***************************************************************************)
\* what a sign_extend with a shift amount out of range yields: no u32 value
ShiftOverflow == [i \in BitIdx32 |-> 2]

\* a variant of sign_extend_u16 without the `as i16`: the shift back is logical
sign_extend_u16_logical(self, valid_bits) ==
    LET shift == 16 - valid_bits
    IN  I32AsU32(Shr(Shl16(self, shift), shift))

sign_extend_u16(self, valid_bits) ==
    LET shift == 16 - valid_bits
    IN  IF shift < 0 \/ shift >= 16 THEN ShiftOverflow
        ELSE I32AsU32(Sar(AsI16(Shl16(self, shift)), shift))

sign_extend_u32(self, valid_bits) ==
    LET shift == 32 - valid_bits
    IN  IF shift < 0 \/ shift >= 32 THEN ShiftOverflow
        ELSE Sar32(Shl32(self, shift), shift)

(***************************************************************************)
(* lib.rs: the 32-bit opcode dispatch tree.  An Operation is a record      *)
(* whose field op names the variant.                                       *)
(***************************************************************************)
\* `(x as u8).try_into().unwrap()` into a Register
RegOf(x) == Unwrap(Register_try_from(AsU8(x)))

\* a u32 bit field: (input >> sh) & mask
Field32(input, sh, mask) == And32(Shr32(input, sh), U32(mask))

parse_misc_ctrl(input) ==
    LET op     == Val32(Field32(input, 4, 15))
        option == And32(input, U32(15))
    IN  CASE op = 4 -> Ok([op |-> "DSB", option |-> U32AsU8(option)])
          [] op = 5 -> Ok([op |-> "DMB", option |-> U32AsU8(option)])
          [] op = 6 -> Ok([op |-> "ISB", option |-> U32AsU8(option)])
          [] OTHER -> Err(Unit)

\* the BL arm: the offset S:I1:I2:imm10:imm11:0, sign-extended from 25 bits
\* a variant of bl_imm that concatenates the raw fields S:J1:J2:imm10:imm11:0
bl_imm_raw(input) ==
    LET s     == Field32(input, 26, 1)
        j1    == Field32(input, 13, 1)
        j2    == Field32(input, 11, 1)
        imm10 == Field32(input, 16, 1023)
        imm11 == And32(input, U32(2047))
    IN  sign_extend_u32(
            Or32(Or32(Or32(Or32(Shl32(s, 24), Shl32(j1, 23)), Shl32(j2, 22)),
                      Shl32(imm10, 12)),
                 Shl32(imm11, 1)),
            25)

\* a variant of bl_imm without the final sign extension
bl_imm_unsigned(input) ==
    LET s     == Field32(input, 26, 1)
        j1    == Field32(input, 13, 1)
        j2    == Field32(input, 11, 1)
        i1    == And32(Not32(Xor32(j1, s)), U32(1))
        i2    == And32(Not32(Xor32(j2, s)), U32(1))
        imm10 == Field32(input, 16, 1023)
        imm11 == And32(input, U32(2047))
    IN  Or32(Or32(Or32(Or32(Shl32(s, 24), Shl32(i1, 23)), Shl32(i2, 22)),
                  Shl32(imm10, 12)),
             Shl32(imm11, 1))

bl_imm(input) ==
    LET s     == Field32(input, 26, 1)
        j1    == Field32(input, 13, 1)
        j2    == Field32(input, 11, 1)
        i1    == And32(Not32(Xor32(j1, s)), U32(1))
        i2    == And32(Not32(Xor32(j2, s)), U32(1))
        imm10 == Field32(input, 16, 1023)
        imm11 == And32(input, U32(2047))
    IN  sign_extend_u32(
            Or32(Or32(Or32(Or32(Shl32(s, 24), Shl32(i1, 23)), Shl32(i2, 22)),
                      Shl32(imm10, 12)),
                 Shl32(imm11, 1)),
            25)

parse_branch_misc_ctrl(input) ==
    LET op1 == Val32(Field32(input, 20, 127))
        op2 == Val32(Field32(input, 12, 7))
    IN  CASE op2 \in {0, 2} /\ op1 \in 56..57 ->
               LET rn   == Unwrap(Register_try_from(U32AsU8(Field32(input, 16, 15))))
                   sysm == SpecialRegister_try_from(U32AsU8(And32(input, U32(255))))
               IN  IF sysm.tag = "Ok"
                   THEN Ok([op |-> "MSRReg", n |-> rn, sysm |-> sysm.val])
                   ELSE Err(sysm.err)
          [] op2 \in {0, 2} /\ op1 = 59 -> parse_misc_ctrl(input)
          [] op2 \in {0, 2} /\ op1 \in 62..63 ->
               LET rd   == Unwrap(Register_try_from(U32AsU8(Field32(input, 8, 15))))
                   sysm == SpecialRegister_try_from(U32AsU8(And32(input, U32(255))))
               IN  IF sysm.tag = "Ok"
                   THEN Ok([op |-> "MRS", d |-> rd, sysm |-> sysm.val])
                   ELSE Err(sysm.err)
          [] op2 = 7 /\ op1 = 127 -> Err(Unit)
          [] op2 \in {5, 7} /\ ~(op2 = 7 /\ op1 = 127) ->
               Ok([op |-> "BL", imm |-> bl_imm(input)])
          [] OTHER -> Err(Unit)

\* parse_32bit_operation without the test of bit 15
parse_32bit_operation_any_op(input) ==
    LET op1 == Val32(Field32(input, 27, 3))
    IN  IF op1 = 2 THEN parse_branch_misc_ctrl(input) ELSE Err(Unit)

parse_32bit_operation(input) ==
    LET op1 == Val32(Field32(input, 27, 3))
        op  == Val32(Field32(input, 15, 1))
    IN  IF op1 = 2 /\ op = 1 THEN parse_branch_misc_ctrl(input) ELSE Err(Unit)

(***************************************************************************)
(* lib.rs: the 16-bit opcode dispatch tree.  In every CASE the arms are    *)
(* the arms of the match, in the order of the source; their patterns are   *)
(* disjoint.                                                               *)
(***************************************************************************)
\* a u16 bit field: (input >> sh) & mask
Field16(input, sh, mask) == BitAnd(Shr(input, sh), mask)

parse_hint_instruction(input) ==
    LET op_a == Field16(input, 4, 15)
        op_b == BitAnd(input, 15)
    IN  IF op_b > 0 THEN Err(Unit)
        ELSE CASE op_a = 0 -> Ok([op |-> "NOP"])
               [] op_a = 1 -> Ok([op |-> "YIELD"])
               [] op_a = 2 -> Ok([op |-> "WFE"])
               [] op_a = 3 -> Ok([op |-> "WFE"])
               [] op_a = 4 -> Ok([op |-> "SEV"])
               [] OTHER -> Err(Unit)

\* the operand pair rm = bits 5..3, rd = bits 2..0 shared by many arms
RmRd(input, name) ==
    Ok([op |-> name, m |-> RegOf(Field16(input, 3, 7)), d |-> RegOf(BitAnd(input, 7))])

\* parse_misc_16_bit with the extra PUSH bit placed at position 15, as for POP
parse_misc_16_bit_push_pc(input) ==
    LET opcode == Field16(input, 5, 127)
    IN  CASE opcode \in 0..3 ->
               Ok([op |-> "ADDImmSP", d |-> "SP",
                   imm |-> U32(Shl16(BitAnd(input, 127), 2))])
          [] opcode \in 4..7 ->
               Ok([op |-> "SUBImmSP", imm |-> U32(Shl16(BitAnd(input, 127), 2))])
          [] opcode \in 16..17 -> RmRd(input, "SXTH")
          [] opcode \in 18..19 -> RmRd(input, "SXTB")
          [] opcode \in 20..21 -> RmRd(input, "UXTH")
          [] opcode \in 22..23 -> RmRd(input, "UXTB")
          [] opcode \in 32..47 ->
               LET reg_list_bits ==
                       BitOr(Shl16(Field16(input, 8, 1), 15), BitAnd(input, 255))
               IN  Ok([op |-> "PUSH",
                       reg_list |-> register_list_from_bit_array(reg_list_bits)])
          [] opcode = 51 ->
               Ok([op |-> "CPS", im |-> (Field16(input, 4, 1) = 1)])
          [] opcode \in 80..81 -> RmRd(input, "REV")
          [] opcode \in 82..83 -> RmRd(input, "REV16")
          [] opcode \in 86..87 -> RmRd(input, "REVSH")
          [] opcode \in 96..111 ->
               LET reg_list_bits ==
                       BitOr(Shl16(Field16(input, 8, 1), 15), BitAnd(input, 255))
               IN  Ok([op |-> "POP",
                       reg_list |-> register_list_from_bit_array(reg_list_bits)])
          [] opcode \in 112..119 ->
               Ok([op |-> "BKPT", imm |-> U32(BitAnd(input, 255))])
          [] opcode \in 120..127 -> parse_hint_instruction(input)
          [] OTHER -> Err(Unit)

parse_misc_16_bit(input) ==
    LET opcode == Field16(input, 5, 127)
    IN  CASE opcode \in 0..3 ->
               Ok([op |-> "ADDImmSP", d |-> "SP",
                   imm |-> U32(Shl16(BitAnd(input, 127), 2))])
          [] opcode \in 4..7 ->
               Ok([op |-> "SUBImmSP", imm |-> U32(Shl16(BitAnd(input, 127), 2))])
          [] opcode \in 16..17 -> RmRd(input, "SXTH")
          [] opcode \in 18..19 -> RmRd(input, "SXTB")
          [] opcode \in 20..21 -> RmRd(input, "UXTH")
          [] opcode \in 22..23 -> RmRd(input, "UXTB")
          [] opcode \in 32..47 ->
               LET reg_list_bits ==
                       BitOr(Shl16(Field16(input, 8, 1), 14), BitAnd(input, 255))
               IN  Ok([op |-> "PUSH",
                       reg_list |-> register_list_from_bit_array(reg_list_bits)])
          [] opcode = 51 ->
               Ok([op |-> "CPS", im |-> (Field16(input, 4, 1) = 1)])
          [] opcode \in 80..81 -> RmRd(input, "REV")
          [] opcode \in 82..83 -> RmRd(input, "REV16")
          [] opcode \in 86..87 -> RmRd(input, "REVSH")
          [] opcode \in 96..111 ->
               LET reg_list_bits ==
                       BitOr(Shl16(Field16(input, 8, 1), 15), BitAnd(input, 255))
               IN  Ok([op |-> "POP",
                       reg_list |-> register_list_from_bit_array(reg_list_bits)])
          [] opcode \in 112..119 ->
               Ok([op |-> "BKPT", imm |-> U32(BitAnd(input, 255))])
          [] opcode \in 120..127 -> parse_hint_instruction(input)
          [] OTHER -> Err(Unit)

\* parse_arith_instructions without the zero-shift case of LSL
parse_arith_instructions_lsl0(input) ==
    LET opcode == Field16(input, 9, 31)
        r6    == RegOf(Field16(input, 6, 7))
        r3    == RegOf(Field16(input, 3, 7))
        r0    == RegOf(BitAnd(input, 7))
        r8    == RegOf(Field16(input, 8, 7))
        imm5   == Field16(input, 6, 31)
        imm8   == BitAnd(input, 255)
    IN  CASE opcode \in 0..3 ->
               Ok([op |-> "LSLImm", imm |-> U32(imm5), m |-> r3, d |-> r0])
          [] opcode \in 4..7 ->
               Ok([op |-> "LSRImm", imm |-> U32(imm5), m |-> r3, d |-> r0])
          [] opcode \in 8..11 ->
               Ok([op |-> "ASRImm", imm |-> U32(imm5), m |-> r3, d |-> r0])
          [] opcode = 12 ->
               Ok([op |-> "ADDReg", m |-> r6, n |-> r3, d |-> r0])
          [] opcode = 13 ->
               Ok([op |-> "SUBReg", m |-> r6, n |-> r3, d |-> r0])
          [] opcode = 14 ->
               Ok([op |-> "ADDImm", imm |-> U32(Field16(input, 6, 7)),
                   n |-> r3, d |-> r0])
          [] opcode = 15 ->
               \* the immediate goes through Register and back (`imm as u32`)
               Ok([op |-> "SUBImm", imm |-> U32(Register_as_u8(r6)),
                   n |-> r3, d |-> r0])
          [] opcode \in 16..19 -> Ok([op |-> "MOVImm", d |-> r8, imm |-> U32(imm8)])
          [] opcode \in 20..23 -> Ok([op |-> "CMPImm", n |-> r8, imm |-> U32(imm8)])
          [] opcode \in 24..27 ->
               Ok([op |-> "ADDImm", imm |-> U32(imm8), n |-> r8, d |-> r8])
          [] opcode \in 28..31 ->
               Ok([op |-> "SUBImm", n |-> r8, d |-> r8, imm |-> U32(imm8)])
          [] OTHER -> Err(Unit)

parse_arith_instructions(input) ==
    LET opcode == Field16(input, 9, 31)
        r6    == RegOf(Field16(input, 6, 7))
        r3    == RegOf(Field16(input, 3, 7))
        r0    == RegOf(BitAnd(input, 7))
        r8    == RegOf(Field16(input, 8, 7))
        imm5   == Field16(input, 6, 31)
        imm8   == BitAnd(input, 255)
    IN  CASE opcode \in 0..3 ->
               IF imm5 > 0
               THEN Ok([op |-> "LSLImm", imm |-> U32(imm5), m |-> r3, d |-> r0])
               ELSE Ok([op |-> "MOVReg", set_flags |-> TRUE, m |-> r3, d |-> r0])
          [] opcode \in 4..7 ->
               Ok([op |-> "LSRImm", imm |-> U32(imm5), m |-> r3, d |-> r0])
          [] opcode \in 8..11 ->
               Ok([op |-> "ASRImm", imm |-> U32(imm5), m |-> r3, d |-> r0])
          [] opcode = 12 ->
               Ok([op |-> "ADDReg", m |-> r6, n |-> r3, d |-> r0])
          [] opcode = 13 ->
               Ok([op |-> "SUBReg", m |-> r6, n |-> r3, d |-> r0])
          [] opcode = 14 ->
               Ok([op |-> "ADDImm", imm |-> U32(Field16(input, 6, 7)),
                   n |-> r3, d |-> r0])
          [] opcode = 15 ->
               \* the immediate goes through Register and back (`imm as u32`)
               Ok([op |-> "SUBImm", imm |-> U32(Register_as_u8(r6)),
                   n |-> r3, d |-> r0])
          [] opcode \in 16..19 -> Ok([op |-> "MOVImm", d |-> r8, imm |-> U32(imm8)])
          [] opcode \in 20..23 -> Ok([op |-> "CMPImm", n |-> r8, imm |-> U32(imm8)])
          [] opcode \in 24..27 ->
               Ok([op |-> "ADDImm", imm |-> U32(imm8), n |-> r8, d |-> r8])
          [] opcode \in 28..31 ->
               Ok([op |-> "SUBImm", n |-> r8, d |-> r8, imm |-> U32(imm8)])
          [] OTHER -> Err(Unit)

parse_data_processing_instruction(input) ==
    LET opcode == Field16(input, 6, 15)
        r3     == RegOf(Field16(input, 3, 7))
        r0     == RegOf(BitAnd(input, 7))
    IN  CASE opcode = 0  -> Ok([op |-> "ANDReg", m |-> r3, dn |-> r0])
          [] opcode = 1  -> Ok([op |-> "EORReg", m |-> r3, dn |-> r0])
          [] opcode = 2  -> Ok([op |-> "LSLReg", m |-> r3, dn |-> r0])
          [] opcode = 3  -> Ok([op |-> "LSRReg", m |-> r3, dn |-> r0])
          [] opcode = 4  -> Ok([op |-> "ASRReg", m |-> r3, dn |-> r0])
          [] opcode = 5  -> Ok([op |-> "ADCReg", m |-> r3, n |-> r0, d |-> r0])
          [] opcode = 6  -> Ok([op |-> "SBCReg", m |-> r3, dn |-> r0])
          [] opcode = 7  -> Ok([op |-> "RORReg", m |-> r3, dn |-> r0])
          [] opcode = 8  -> Ok([op |-> "TSTReg", m |-> r3, n |-> r0])
          [] opcode = 9  -> Ok([op |-> "RSBImm", n |-> r3, d |-> r0])
          [] opcode = 10 -> Ok([op |-> "CMPReg", m |-> r3, n |-> r0])
          [] opcode = 11 -> Ok([op |-> "CMNReg", m |-> r3, n |-> r0])
          [] opcode = 12 -> Ok([op |-> "ORRReg", m |-> r3, dn |-> r0])
          [] opcode = 13 -> Ok([op |-> "MUL", n |-> r3, dm |-> r0])
          [] opcode = 14 -> Ok([op |-> "BICReg", m |-> r3, dn |-> r0])
          [] opcode = 15 -> Ok([op |-> "MVNReg", m |-> r3, d |-> r0])
          [] OTHER -> Err(Unit)

\* parse_special_data_branch_exchange_instruction testing only Rm against SP
parse_special_data_rm_only(input) ==
    LET opcode == Field16(input, 6, 15)
        rm     == RegOf(Field16(input, 3, 15))
        rdn    == RegOf(BitOr(BitAnd(input, 7), Field16(input, 4, 8)))
    IN  CASE opcode \in 0..3 ->
               IF rm = "SP"
               THEN IF rm = "SP"
                    THEN Ok([op |-> "ADDRegSP", d |-> rdn, m |-> rdn])
                    ELSE Ok([op |-> "ADDRegSP", d |-> "SP", m |-> rm])
               ELSE Ok([op |-> "ADDReg", m |-> rm, n |-> rdn, d |-> rdn])
          [] opcode = 4 -> Err(Unit)
          [] opcode \in 5..7 -> Ok([op |-> "CMPReg", m |-> rm, n |-> rdn])
          [] opcode \in 8..11 ->
               Ok([op |-> "MOVReg", set_flags |-> FALSE, m |-> rm, d |-> rdn])
          [] opcode \in 12..13 -> Ok([op |-> "BX", m |-> rm])
          [] opcode \in 14..15 -> Ok([op |-> "BLXReg", m |-> rm])
          [] OTHER -> Err(Unit)

\* parse_special_data_branch_exchange_instruction taking Rm from five bits
parse_special_data_rm_5_bits(input) ==
    LET opcode == Field16(input, 6, 15)
        rm     == RegOf(Field16(input, 3, 31))
        rdn    == RegOf(BitOr(BitAnd(input, 7), Field16(input, 4, 8)))
    IN  CASE opcode \in 0..3 ->
               IF rdn = "SP" \/ rm = "SP"
               THEN IF rm = "SP"
                    THEN Ok([op |-> "ADDRegSP", d |-> rdn, m |-> rdn])
                    ELSE Ok([op |-> "ADDRegSP", d |-> "SP", m |-> rm])
               ELSE Ok([op |-> "ADDReg", m |-> rm, n |-> rdn, d |-> rdn])
          [] opcode = 4 -> Err(Unit)
          [] opcode \in 5..7 -> Ok([op |-> "CMPReg", m |-> rm, n |-> rdn])
          [] opcode \in 8..11 ->
               Ok([op |-> "MOVReg", set_flags |-> FALSE, m |-> rm, d |-> rdn])
          [] opcode \in 12..13 -> Ok([op |-> "BX", m |-> rm])
          [] opcode \in 14..15 -> Ok([op |-> "BLXReg", m |-> rm])
          [] OTHER -> Err(Unit)

parse_special_data_branch_exchange_instruction(input) ==
    LET opcode == Field16(input, 6, 15)
        rm     == RegOf(Field16(input, 3, 15))
        rdn    == RegOf(BitOr(BitAnd(input, 7), Field16(input, 4, 8)))
    IN  CASE opcode \in 0..3 ->
               IF rdn = "SP" \/ rm = "SP"
               THEN IF rm = "SP"
                    THEN Ok([op |-> "ADDRegSP", d |-> rdn, m |-> rdn])
                    ELSE Ok([op |-> "ADDRegSP", d |-> "SP", m |-> rm])
               ELSE Ok([op |-> "ADDReg", m |-> rm, n |-> rdn, d |-> rdn])
          [] opcode = 4 -> Err(Unit)
          [] opcode \in 5..7 -> Ok([op |-> "CMPReg", m |-> rm, n |-> rdn])
          [] opcode \in 8..11 ->
               Ok([op |-> "MOVReg", set_flags |-> FALSE, m |-> rm, d |-> rdn])
          [] opcode \in 12..13 -> Ok([op |-> "BX", m |-> rm])
          [] opcode \in 14..15 -> Ok([op |-> "BLXReg", m |-> rm])
          [] OTHER -> Err(Unit)

parse_load_store_instruction(input) ==
    LET op_a == Field16(input, 12, 15)
        op_b == Field16(input, 9, 7)
        r6   == RegOf(Field16(input, 6, 7))
        r3   == RegOf(Field16(input, 3, 7))
        r0   == RegOf(BitAnd(input, 7))
        r8   == RegOf(Field16(input, 8, 7))
        imm5x4 == U32(Shr(BitAnd(input, 1984), 4))
        imm5x2 == U32(Shr(BitAnd(input, 1984), 5))
        imm5x1 == U32(Shr(BitAnd(input, 1984), 6))
        imm8x4 == U32(Shl16(BitAnd(input, 255), 2))
    IN  CASE op_a = 5 ->
               (CASE op_b = 0 -> Ok([op |-> "STRReg", m |-> r6, n |-> r3, t |-> r0])
                  [] op_b = 1 -> Ok([op |-> "STRHReg", m |-> r6, n |-> r3, t |-> r0])
                  [] op_b = 2 -> Ok([op |-> "STRBReg", m |-> r6, n |-> r3, t |-> r0])
                  [] op_b = 3 -> Ok([op |-> "LDRSBReg", m |-> r6, n |-> r3, t |-> r0])
                  [] op_b = 4 -> Ok([op |-> "LDRReg", m |-> r6, n |-> r3, t |-> r0])
                  [] op_b = 5 -> Ok([op |-> "LDRHReg", m |-> r6, n |-> r3, t |-> r0])
                  [] op_b = 6 -> Ok([op |-> "LDRBReg", m |-> r6, n |-> r3, t |-> r0])
                  [] op_b = 7 -> Ok([op |-> "LDRSH", m |-> r6, n |-> r3, t |-> r0])
                  [] OTHER -> Err(Unit))
          [] op_a = 6 ->
               (CASE op_b \in 0..3 ->
                       Ok([op |-> "STRImm", imm |-> imm5x4, n |-> r3, t |-> r0])
                  [] op_b \in 4..7 ->
                       Ok([op |-> "LDRImm", imm |-> imm5x4, n |-> r3, t |-> r0])
                  [] OTHER -> Err(Unit))
          [] op_a = 7 ->
               (CASE op_b \in 0..3 ->
                       Ok([op |-> "STRBImm", imm |-> imm5x1, n |-> r3, t |-> r0])
                  [] op_b \in 4..7 ->
                       Ok([op |-> "LDRBImm", imm |-> imm5x1, n |-> r3, t |-> r0])
                  [] OTHER -> Err(Unit))
          [] op_a = 8 ->
               (CASE op_b \in 0..3 ->
                       Ok([op |-> "STRHImm", imm |-> imm5x2, n |-> r3, t |-> r0])
                  [] op_b \in 4..7 ->
                       Ok([op |-> "LDRHImm", imm |-> imm5x2, n |-> r3, t |-> r0])
                  [] OTHER -> Err(Unit))
          [] op_a = 9 ->
               (CASE op_b \in 0..3 ->
                       Ok([op |-> "STRImm", n |-> "SP", t |-> r8, imm |-> imm8x4])
                  [] op_b \in 4..7 ->
                       Ok([op |-> "LDRImm", n |-> "SP", t |-> r8, imm |-> imm8x4])
                  [] OTHER -> Err(Unit))
          [] OTHER -> Err(Unit)

\* parse_conditional_branch without the permanently-undefined arm
parse_conditional_branch_no_udf(input) ==
    LET opcode == Field16(input, 8, 15)
    IN  CASE opcode = 15 -> Ok([op |-> "SVC", imm |-> U32(BitAnd(input, 255))])
          [] OTHER ->
               LET imm  == sign_extend_u16(Shl16(BitAnd(input, 255), 1), 9)
                   cond == Condition_try_from(AsU8(Field16(input, 8, 15)))
               IN  IF cond.tag = "Ok"
                   THEN Ok([op |-> "B", cond |-> cond.val, imm |-> imm])
                   ELSE Err(Unit)

\* parse_conditional_branch with the offset left as imm8, not doubled
parse_conditional_branch_unshifted(input) ==
    LET opcode == Field16(input, 8, 15)
    IN  CASE opcode = 14 -> Err(Unit)
          [] opcode = 15 -> Ok([op |-> "SVC", imm |-> U32(BitAnd(input, 255))])
          [] OTHER ->
               LET imm  == sign_extend_u16(BitAnd(input, 255), 9)
                   cond == Condition_try_from(AsU8(Field16(input, 8, 15)))
               IN  IF cond.tag = "Ok"
                   THEN Ok([op |-> "B", cond |-> cond.val, imm |-> imm])
                   ELSE Err(Unit)

parse_conditional_branch(input) ==
    LET opcode == Field16(input, 8, 15)
    IN  CASE opcode = 14 -> Err(Unit)
          [] opcode = 15 -> Ok([op |-> "SVC", imm |-> U32(BitAnd(input, 255))])
          [] OTHER ->
               LET imm  == sign_extend_u16(Shl16(BitAnd(input, 255), 1), 9)
                   cond == Condition_try_from(AsU8(Field16(input, 8, 15)))
               IN  IF cond.tag = "Ok"
                   THEN Ok([op |-> "B", cond |-> cond.val, imm |-> imm])
                   ELSE Err(Unit)

\* parse_16bit_operation with the 8-bit immediate left unscaled
parse_16bit_operation_imm8(input) ==
    LET opcode == Field16(input, 10, 63)
        r8     == RegOf(Field16(input, 8, 7))
        imm8x4 == U32(BitAnd(input, 255))
    IN  CASE opcode \in 0..15 -> parse_arith_instructions(input)
          [] opcode = 16 -> parse_data_processing_instruction(input)
          [] opcode = 17 -> parse_special_data_branch_exchange_instruction(input)
          [] opcode \in 18..19 -> Ok([op |-> "LDRLiteral", t |-> r8, imm |-> imm8x4])
          [] opcode \in 20..39 -> parse_load_store_instruction(input)
          [] opcode \in 40..41 -> Ok([op |-> "ADR", d |-> r8, imm |-> imm8x4])
          [] opcode \in 42..43 -> Ok([op |-> "ADDImmSP", d |-> r8, imm |-> imm8x4])
          [] opcode \in 44..47 -> parse_misc_16_bit(input)
          [] opcode \in 48..49 ->
               Ok([op |-> "STM", n |-> r8,
                   reg_list |-> register_list_from_bit_array(BitAnd(input, 255))])
          [] opcode \in 50..51 ->
               Ok([op |-> "LDM", n |-> r8,
                   reg_list |-> register_list_from_bit_array(BitAnd(input, 255))])
          [] opcode \in 52..55 -> parse_conditional_branch(input)
          [] opcode \in 56..57 ->
               Ok([op |-> "B", cond |-> "None",
                   imm |-> sign_extend_u16(Shl16(BitAnd(input, 2047), 1), 12)])
          [] OTHER -> Err(Unit)

\* parse_16bit_operation rejecting an STM whose register list is empty
parse_16bit_operation_stm_nonempty(input) ==
    LET opcode == Field16(input, 10, 63)
        r8     == RegOf(Field16(input, 8, 7))
        imm8x4 == U32(Shl16(BitAnd(input, 255), 2))
    IN  CASE opcode \in 0..15 -> parse_arith_instructions(input)
          [] opcode = 16 -> parse_data_processing_instruction(input)
          [] opcode = 17 -> parse_special_data_branch_exchange_instruction(input)
          [] opcode \in 18..19 -> Ok([op |-> "LDRLiteral", t |-> r8, imm |-> imm8x4])
          [] opcode \in 20..39 -> parse_load_store_instruction(input)
          [] opcode \in 40..41 -> Ok([op |-> "ADR", d |-> r8, imm |-> imm8x4])
          [] opcode \in 42..43 -> Ok([op |-> "ADDImmSP", d |-> r8, imm |-> imm8x4])
          [] opcode \in 44..47 -> parse_misc_16_bit(input)
          [] opcode \in 48..49 ->
               IF BitAnd(input, 255) = 0 THEN Err(Unit)
               ELSE Ok([op |-> "STM", n |-> r8,
                        reg_list |-> register_list_from_bit_array(BitAnd(input, 255))])
          [] opcode \in 50..51 ->
               Ok([op |-> "LDM", n |-> r8,
                   reg_list |-> register_list_from_bit_array(BitAnd(input, 255))])
          [] opcode \in 52..55 -> parse_conditional_branch(input)
          [] opcode \in 56..57 ->
               Ok([op |-> "B", cond |-> "None",
                   imm |-> sign_extend_u16(Shl16(BitAnd(input, 2047), 1), 12)])
          [] OTHER -> Err(Unit)

parse_16bit_operation(input) ==
    LET opcode == Field16(input, 10, 63)
        r8     == RegOf(Field16(input, 8, 7))
        imm8x4 == U32(Shl16(BitAnd(input, 255), 2))
    IN  CASE opcode \in 0..15 -> parse_arith_instructions(input)
          [] opcode = 16 -> parse_data_processing_instruction(input)
          [] opcode = 17 -> parse_special_data_branch_exchange_instruction(input)
          [] opcode \in 18..19 -> Ok([op |-> "LDRLiteral", t |-> r8, imm |-> imm8x4])
          [] opcode \in 20..39 -> parse_load_store_instruction(input)
          [] opcode \in 40..41 -> Ok([op |-> "ADR", d |-> r8, imm |-> imm8x4])
          [] opcode \in 42..43 -> Ok([op |-> "ADDImmSP", d |-> r8, imm |-> imm8x4])
          [] opcode \in 44..47 -> parse_misc_16_bit(input)
          [] opcode \in 48..49 ->
               Ok([op |-> "STM", n |-> r8,
                   reg_list |-> register_list_from_bit_array(BitAnd(input, 255))])
          [] opcode \in 50..51 ->
               Ok([op |-> "LDM", n |-> r8,
                   reg_list |-> register_list_from_bit_array(BitAnd(input, 255))])
          [] opcode \in 52..55 -> parse_conditional_branch(input)
          [] opcode \in 56..57 ->
               Ok([op |-> "B", cond |-> "None",
                   imm |-> sign_extend_u16(Shl16(BitAnd(input, 2047), 1), 12)])
          [] OTHER -> Err(Unit)

(***************************************************************************)
(* lib.rs: parse.  A byte slice is a sequence of bytes; the slice          *)
(* input[a..b] is SubSeq(input, a + 1, b) and panics when b exceeds the    *)
(* length.                                                                 *)
(***************************************************************************)
SliceInRange(input, a, b) == a <= b /\ b <= Len(input)

Slice(input, a, b) == SubSeq(input, a + 1, b)

u16_from_le_bytes(bytes) == bytes[1] + 256 * bytes[2]

\* the match of parse on the top five bits of the first halfword
Is32BitClass(instruction_bits1) ==
    Field16(instruction_bits1, 11, 31) \in {29, 30, 31}

\* `Ok(Instruction { width, operation: operation? })`
InstructionOf(width, operation) ==
    IF operation.tag = "Ok"
    THEN Ok([width |-> width, operation |-> operation.val])
    ELSE Err(Unit)

\* a variant of instruction_bits32 that puts the first halfword low
instruction_bits32_swapped(instruction_bits1, instruction_bits2) ==
    Or32(Shl32(U32(instruction_bits2), 16), U32(instruction_bits1))

\* `(instruction_bits1 as u32) << 16 | instruction_bits2 as u32`
instruction_bits32(instruction_bits1, instruction_bits2) ==
    Or32(Shl32(U32(instruction_bits1), 16), U32(instruction_bits2))

\* a variant of parse without the `input.len() < 4` check
parse_no_len4_check(input) ==
    IF Len(input) < 2 THEN Err(Unit)
    ELSE IF ~SliceInRange(input, 0, 2) THEN Panic
    ELSE LET instruction_bits1 == u16_from_le_bytes(Slice(input, 0, 2))
         IN  IF Is32BitClass(instruction_bits1)
             THEN IF ~SliceInRange(input, 2, 4) THEN Panic
                  ELSE LET instruction_bits2 == u16_from_le_bytes(Slice(input, 2, 4))
                       IN  InstructionOf("Bit32",
                               parse_32bit_operation(
                                   instruction_bits32(instruction_bits1,
                                                      instruction_bits2)))
             ELSE InstructionOf("Bit16", parse_16bit_operation(instruction_bits1))

\* a variant of parse that takes the halfword of a 16-bit instruction from
\* the end of the slice
parse_last_halfword(input) ==
    IF Len(input) < 2 THEN Err(Unit)
    ELSE IF ~SliceInRange(input, 0, 2) THEN Panic
    ELSE LET instruction_bits1 == u16_from_le_bytes(Slice(input, 0, 2))
         IN  IF Is32BitClass(instruction_bits1)
             THEN IF Len(input) < 4 THEN Err(Unit)
                  ELSE IF ~SliceInRange(input, 2, 4) THEN Panic
                  ELSE LET instruction_bits2 == u16_from_le_bytes(Slice(input, 2, 4))
                       IN  InstructionOf("Bit32",
                               parse_32bit_operation(
                                   instruction_bits32(instruction_bits1,
                                                      instruction_bits2)))
             ELSE InstructionOf("Bit16",
                      parse_16bit_operation(
                          u16_from_le_bytes(Slice(input, Len(input) - 2, Len(input)))))

parse(input) ==
    IF Len(input) < 2 THEN Err(Unit)
    ELSE IF ~SliceInRange(input, 0, 2) THEN Panic
    ELSE LET instruction_bits1 == u16_from_le_bytes(Slice(input, 0, 2))
         IN  IF Is32BitClass(instruction_bits1)
             THEN IF Len(input) < 4 THEN Err(Unit)
                  ELSE IF ~SliceInRange(input, 2, 4) THEN Panic
                  ELSE LET instruction_bits2 == u16_from_le_bytes(Slice(input, 2, 4))
                       IN  InstructionOf("Bit32",
                               parse_32bit_operation(
                                   instruction_bits32(instruction_bits1,
                                                      instruction_bits2)))
             ELSE InstructionOf("Bit16", parse_16bit_operation(instruction_bits1))

(***************************************************************************)
(* The inputs the caller draws from.                                       *)
(***************************************************************************)
\* the longest run of bytes that follows one instruction in an input
MaxTail == 2

\* the two bytes of a halfword, little-endian
Bytes(h) == <<h % 256, h \div 256>>

\* first halfwords that parse classifies as 16-bit: every value of bits
\* 15..5 below 0b11101 000000, with sampled low five bits
Low5Samples == {0, 16, 31}
H16 == {hi * 32 + lo : hi \in 0..1855, lo \in Low5Samples}

\* first halfwords that parse classifies as 32-bit (top five bits 29..31)
Mid7Samples == {0, 56, 57, 58, 59, 62, 63, 64, 127}
Low4Samples == {0, 13}
H32A == {30 * 2048 + mid * 16 + lo : mid \in Mid7Samples, lo \in Low4Samples}
          \cup {t * 2048 + x : t \in {29, 31}, x \in {0, 943, 2047}}

\* second halfwords: every value of bits 15..11, with sampled low eleven bits
Low11Samples == {0, 1, 4, 5, 20, 21, 69, 95, 96, 773, 1024, 2047}
H32B == {t * 2048 + lo : t \in 0..31, lo \in Low11Samples}

\* MSR and MRS encodings with every SYSm code
SysmWords == {<<h1, 32768 + rd * 256 + sysm>> :
                 h1 \in {62336, 62447}, rd \in {3}, sysm \in 0..255}

W32 == (H32A \X H32B) \cup SysmWords

\* the bytes that follow an instruction, repeated up to MaxTail
TailPatterns == {<<175, 2, 240, 0>>, <<255, 243, 0, 128>>}
FullTails == {[k \in 1..MaxTail |-> pat[((k - 1) % Len(pat)) + 1]] : pat \in TailPatterns}

FullInputs ==
    {Bytes(h) \o tail : h \in H16, tail \in FullTails}
      \cup {Bytes(w[1]) \o Bytes(w[2]) \o tail : w \in W32, tail \in FullTails}

\* the first n bytes of s, all of s when it is shorter
Prefix(s, n) == SubSeq(s, 1, IF n < Len(s) THEN n ELSE Len(s))

\* every prefix of a full input, and every single byte
ParseInputs ==
    {Prefix(s, n) : s \in FullInputs, n \in 0..(4 + MaxTail)}
      \cup {<<b>> : b \in 0..255}

(***************************************************************************)
(* The caller: picks an input, calls parse once.                           *)
(***************************************************************************)
Pending == [tag |-> "Pending"]

Init ==
    /\ pc = "call"
    /\ fn = "parse"
    /\ \E i \in ParseInputs : arg = [input |-> i]
    /\ ret = Pending

Parse ==
    /\ pc = "call"
    /\ fn = "parse"
    /\ ret' = parse(arg.input)
    /\ pc' = "done"
    /\ UNCHANGED <<fn, arg>>

Next == Parse

Spec == Init /\ [][Next]_vars

(***************************************************************************)
(* A second caller, for the primitives: it picks one of the sign-extension *)
(* or decoder functions and its argument, and calls it once.               *)
(***************************************************************************)
\* a u32 from its two halfwords
Word(hi, lo) == Or32(Shl32(U32(hi), 16), U32(lo))

SelfSamples16 ==
    {hi * 256 + lo : hi \in {0, 1, 2, 85, 127, 128, 170, 255},
                     lo \in 0..15 \cup {85, 127, 128, 170, 249, 255}}

HalfSamples == {0, 1, 9, 21845, 32767, 32768, 43690, 65529, 65535}
SelfSamples32 == {Word(hi, lo) : hi \in HalfSamples, lo \in HalfSamples}

BitmapSamples ==
    {hi * 256 + lo : hi \in {0, 1, 64, 85, 128, 170, 224, 255}, lo \in 0..255}

InitPrimitives ==
    /\ pc = "call"
    /\ ret = Pending
    /\ \/ /\ fn = "sign_extend_u16"
          /\ \E v \in SelfSamples16, n \in 1..16 : arg = [self |-> v, valid_bits |-> n]
       \/ /\ fn = "sign_extend_u32"
          /\ \E v \in SelfSamples32, n \in 1..32 : arg = [self |-> v, valid_bits |-> n]
       \/ /\ fn \in {"Condition::try_from", "Register::try_from",
                     "SpecialRegister::try_from"}
          /\ \E v \in 0..255 : arg = [value |-> v]
       \/ /\ fn = "register_list_from_bit_array"
          /\ \E b \in BitmapSamples : arg = [bit_array |-> b]

Return(v) ==
    /\ ret' = v
    /\ pc' = "done"
    /\ UNCHANGED <<fn, arg>>

SignExtendU16 ==
    /\ pc = "call" /\ fn = "sign_extend_u16"
    /\ Return([tag |-> "Ret", val |-> sign_extend_u16(arg.self, arg.valid_bits)])

SignExtendU32 ==
    /\ pc = "call" /\ fn = "sign_extend_u32"
    /\ Return([tag |-> "Ret", val |-> sign_extend_u32(arg.self, arg.valid_bits)])

ConditionTryFrom ==
    /\ pc = "call" /\ fn = "Condition::try_from"
    /\ Return(Condition_try_from(arg.value))

RegisterTryFrom ==
    /\ pc = "call" /\ fn = "Register::try_from"
    /\ Return(Register_try_from(arg.value))

SpecialRegisterTryFrom ==
    /\ pc = "call" /\ fn = "SpecialRegister::try_from"
    /\ Return(SpecialRegister_try_from(arg.value))

RegisterList ==
    /\ pc = "call" /\ fn = "register_list_from_bit_array"
    /\ Return([tag |-> "Ret", val |-> register_list_from_bit_array(arg.bit_array)])

NextPrimitives ==
    \/ SignExtendU16
    \/ SignExtendU32
    \/ ConditionTryFrom
    \/ RegisterTryFrom
    \/ SpecialRegisterTryFrom
    \/ RegisterList

SpecPrimitives == InitPrimitives /\ [][NextPrimitives]_vars

(***************************************************************************)
(* A third caller, for the special-register codes: it calls either         *)
(* SpecialRegister::try_from on any u8, or parse on a 32-bit word in the   *)
(* MSR / MRS region of the opcode space carrying any SYSm code.            *)
(***************************************************************************)
\* first halfwords 11110 0 op1 rn with op1 = 0b0111000, 0b0111001 (MSR),
\* 0b0111110, 0b0111111 (MRS)
SysmFirst == {62336, 62365, 62432, 62463}

\* second halfwords 1 op2 rd sysm with op2 = 0b000, 0b010
SysmSecond == {top + rd * 256 + sysm :
                  top \in {32768, 40960}, rd \in {0, 3, 15}, sysm \in 0..255}

InitSysm ==
    /\ pc = "call"
    /\ ret = Pending
    /\ \/ /\ fn = "SpecialRegister::try_from"
          /\ \E v \in 0..255 : arg = [value |-> v]
       \/ /\ fn = "parse"
          /\ \E h1 \in SysmFirst, h2 \in SysmSecond :
                 arg = [input |-> Bytes(h1) \o Bytes(h2)]

NextSysm ==
    \/ SpecialRegisterTryFrom
    \/ Parse

SpecSysm == InitSysm /\ [][NextSysm]_vars

(***************************************************************************)
(* Properties of parse: width classification and truncation.               *)
(***************************************************************************)
\* the call of parse has returned
ParseDone == pc = "done" /\ fn = "parse"

\* bits 15..11 of the first little-endian halfword: the top five bits of
\* the second byte
Top5(input) == input[2] \div 8

\* halfword k (0 or 1) of the input, little-endian
Halfword(input, k) == input[2 * k + 1] + 256 * input[2 * k + 2]

\* C1: parse returns an error, without panicking, whenever fewer bytes are
\* supplied than the classified width requires: every input of length 0 or
\* 1, and every input of length 2 or 3 whose first halfword has top five
\* bits 0b11101, 0b11110 or 0b11111.
C1_TruncatedFails ==
    ParseDone =>
        LET input == arg.input
        IN  (Len(input) < 2 \/ (Len(input) < 4 /\ Top5(input) \in {29, 30, 31}))
                => ret = Err(Unit)

C1_Witness ==
    /\ ParseDone
    /\ Len(arg.input) = 3
    /\ Top5(arg.input) = 30
    /\ ret.tag = "Err"

\* C2: when parse succeeds the width is Bit32 exactly when the top five bits
\* of the first halfword are 0b11101, 0b11110 or 0b11111 and Bit16 otherwise;
\* a Bit16 operation is the decoding of the first two bytes and a Bit32
\* operation the decoding of the first four, first halfword in the high half.
C2_WidthMatchesClass ==
    (ParseDone /\ ret.tag = "Ok") =>
        LET input == arg.input
            instr == ret.val
        IN  /\ instr.width \in {"Bit16", "Bit32"}
            /\ instr.width = "Bit32" <=> Top5(input) \in {29, 30, 31}
            /\ instr.width = "Bit16" =>
                   Ok(instr.operation) = parse_16bit_operation(Halfword(input, 0))
            /\ instr.width = "Bit32" =>
                   /\ Len(input) >= 4
                   /\ Ok(instr.operation) =
                          parse_32bit_operation(
                              Word(Halfword(input, 0), Halfword(input, 1)))

C2_Witness ==
    /\ ParseDone
    /\ ret.tag = "Ok"
    /\ ret.val.width = "Bit32"
    /\ Top5(arg.input) = 30
    /\ Halfword(arg.input, 0) # Halfword(arg.input, 1)

\* C3: parse does not read past the classified width: the result for an
\* input is the result for its first 2 bytes when the first halfword is
\* classified 16-bit, and for its first 4 bytes otherwise; B0 B5 AF 02 and
\* B0 B5 both decode to the 16-bit PUSH of R4, R5, R7, LR.
C3_NoOverRead ==
    (ParseDone /\ Len(arg.input) >= 2) =>
        LET input == arg.input
            width == IF Top5(input) \in {29, 30, 31} THEN 4 ELSE 2
        IN  /\ ret = parse(Prefix(input, width))
            /\ input \in {<<176, 181>>, <<176, 181, 175, 2>>} =>
                   ret = Ok([width |-> "Bit16",
                             operation |-> [op |-> "PUSH",
                                            reg_list |-> <<"R4", "R5", "R7", "LR">>]])

C3_Witness ==
    /\ ParseDone
    /\ arg.input = <<176, 181, 175, 2>>
    /\ ret.tag = "Ok"
    /\ ret.val.operation.op = "PUSH"

(***************************************************************************)
(* Properties of the branch-with-link immediate.                           *)
(***************************************************************************)
\* a u32 read as a signed 32-bit number
SignedOf(w) ==
    IF w[31] = 1 THEN (LowVal32(w, 31) - 2147483647) - 1 ELSE LowVal32(w, 31)

\* the fields of a BL encoding, taken from the two halfwords
BL_S(h1)     == (h1 \div 1024) % 2
BL_imm10(h1) == h1 % 1024
BL_J1(h2)    == (h2 \div 8192) % 2
BL_J2(h2)    == (h2 \div 2048) % 2
BL_imm11(h2) == h2 % 2048

\* S:I1:I2:imm10:imm11:0 as a 25-bit two's complement number, with
\* I1 = NOT(J1 XOR S) and I2 = NOT(J2 XOR S)
BL_Offset(h1, h2) ==
    LET S  == BL_S(h1)
        I1 == 1 - ((BL_J1(h2) + S) % 2)
        I2 == 1 - ((BL_J2(h2) + S) % 2)
    IN  (I1 * 8388608 + I2 * 4194304 + BL_imm10(h1) * 4096 + BL_imm11(h2) * 2)
          - S * 16777216

\* parse returned a branch-with-link
ParsedBL == ParseDone /\ ret.tag = "Ok" /\ ret.val.operation.op = "BL"

\* C4: the immediate of every decoded BL is S:I1:I2:imm10:imm11:0
\* sign-extended from 25 to 32 bits; S = 1 with every other field 0 gives
\* -2^24, that is 0xFF000000.
C4_BLImmediate ==
    ParsedBL =>
        LET h1  == Halfword(arg.input, 0)
            h2  == Halfword(arg.input, 1)
            imm == ret.val.operation.imm
        IN  /\ ret.val.width = "Bit32"
            /\ SignedOf(imm) = BL_Offset(h1, h2)
            /\ (h1 = 62464 /\ h2 = 53248) =>
                   (imm = Word(65280, 0) /\ SignedOf(imm) = -16777216)

C4_Witness ==
    /\ ParsedBL
    /\ Halfword(arg.input, 0) = 62464
    /\ Halfword(arg.input, 1) = 53248
    /\ ret.val.operation.imm = Word(65280, 0)

\* the BL encoding with S = 0, J1 = 0, J2 = 0, imm10 = 0, imm11 = 0
IsBLAllZero(input) ==
    /\ Len(input) >= 4
    /\ Halfword(input, 0) = 61440
    /\ Halfword(input, 1) = 53248

\* C5 as stated: the BL encoding with S = 0, J1 = 0, J2 = 0 and both
\* immediate fields 0 decodes to BL with offset 0.
C5_Original ==
    (ParseDone /\ IsBLAllZero(arg.input)) =>
        (ret.tag = "Ok" /\ ret.val.operation = [op |-> "BL", imm |-> U32(0)])

\* C5 amended: the BL encoding with S = 0, J1 = 0, J2 = 0 and both immediate
\* fields 0 decodes to BL with offset 0x00C00000 (I1 = I2 = 1); offset 0 is
\* what S = 0, J1 = 1, J2 = 1 with both immediate fields 0 decodes to.
C5_Amended ==
    /\ (ParseDone /\ IsBLAllZero(arg.input)) =>
           (ret.tag = "Ok" /\ ret.val.operation = [op |-> "BL", imm |-> Word(192, 0)])
    /\ (ParseDone /\ Len(arg.input) >= 4
          /\ Halfword(arg.input, 0) = 61440 /\ Halfword(arg.input, 1) = 63488) =>
           (ret.tag = "Ok" /\ ret.val.operation = [op |-> "BL", imm |-> U32(0)])

C5_Witness ==
    /\ ParsedBL
    /\ IsBLAllZero(arg.input)
    /\ SignedOf(ret.val.operation.imm) = 12582912

(***************************************************************************)
(* Properties of the primitives.                                           *)
(***************************************************************************)
\* the call of primitive f has returned
Done(f) == pc = "done" /\ fn = f

\* bit i of the argument self of a sign_extend call
SelfBit(i) ==
    IF fn = "sign_extend_u16"
    THEN (IF i < 16 THEN (arg.self \div (2 ^ i)) % 2 ELSE 0)
    ELSE arg.self[i]

\* the argument self holds the number n
SelfIs(n) == IF fn = "sign_extend_u16" THEN arg.self = n ELSE arg.self = U32(n)

AllOnes32 == [i \in 0..31 |-> 1]

\* C6: for both input widths and valid_bits from 1 to the width,
\* sign_extend returns 32 bits whose low valid_bits bits are those of the
\* input and whose higher bits all equal input bit valid_bits - 1; with
\* valid_bits the native width every input bit is kept (a u32 comes back
\* unchanged), and with valid_bits = 1 the result is 0 or 0xFFFFFFFF.
C6_SignExtend ==
    (Done("sign_extend_u16") \/ Done("sign_extend_u32")) =>
        LET n     == arg.valid_bits
            r     == ret.val
            width == IF fn = "sign_extend_u16" THEN 16 ELSE 32
        IN  /\ DOMAIN r = 0..31
            /\ \A i \in 0..31 : r[i] = IF i < n THEN SelfBit(i) ELSE SelfBit(n - 1)
            /\ n = width => \A i \in 0..(width - 1) : r[i] = SelfBit(i)
            /\ (n = 32 /\ fn = "sign_extend_u32") => r = arg.self
            /\ n = 1 => r \in {U32(0), AllOnes32}
            /\ (n = 1 /\ SelfIs(1)) => r = AllOnes32
            /\ (n = 4 /\ SelfIs(9)) => r = Word(65535, 65529)
            /\ (n = 5 /\ SelfIs(9)) => r = U32(9)

C6_Witness ==
    /\ Done("sign_extend_u16")
    /\ arg.self = 9
    /\ arg.valid_bits = 4
    /\ ret.val = Word(65535, 65529)

\* C7: for n in 0..14 Condition::try_from(n) succeeds with the condition
\* whose numeric value is n, 14 being None; for 15 and every larger u8 it
\* fails with InvalidCondition.
C7_ConditionRoundTrip ==
    Done("Condition::try_from") =>
        LET n == arg.value
        IN  /\ n <= 14 => (ret.tag = "Ok" /\ Condition_as_u8(ret.val) = n)
            /\ n = 14 => ret = Ok("None")
            /\ n >= 15 => ret = Err("InvalidCondition")

C7_Witness ==
    /\ Done("Condition::try_from")
    /\ arg.value = 15
    /\ ret = Err("InvalidCondition")

\* C8: for n in 0..15 Register::try_from(n) succeeds with the register
\* whose numeric value is n (13 = SP, 14 = LR, 15 = PC); for 16 and every
\* larger u8 it fails.
C8_RegisterRoundTrip ==
    Done("Register::try_from") =>
        LET n == arg.value
        IN  /\ n <= 15 => (ret.tag = "Ok" /\ Register_as_u8(ret.val) = n)
            /\ n = 13 => ret = Ok("SP")
            /\ n = 14 => ret = Ok("LR")
            /\ n = 15 => ret = Ok("PC")
            /\ n >= 16 => ret.tag = "Err"

C8_Witness ==
    /\ Done("Register::try_from")
    /\ arg.value = 16
    /\ ret.tag = "Err"

\* the bit indices set in a 16-bit bitmap
SetBits(b) == {i \in 0..15 : (b \div (2 ^ i)) % 2 = 1}

AllRegisters ==
    <<"R0", "R1", "R2", "R3", "R4", "R5", "R6", "R7",
      "R8", "R9", "R10", "R11", "R12", "SP", "LR", "PC">>

\* C9: register_list_from_bit_array(b) holds exactly the registers i whose
\* bit i is set in b, each once, in strictly ascending order; its length is
\* the number of set bits; 0 gives the empty list, 0x8000 [PC], 0xFFFF all
\* sixteen registers.
C9_RegisterList ==
    Done("register_list_from_bit_array") =>
        LET b == arg.bit_array
            l == ret.val
        IN  /\ {Register_as_u8(l[k]) : k \in 1..Len(l)} = SetBits(b)
            /\ \A j, k \in 1..Len(l) :
                   j < k => Register_as_u8(l[j]) < Register_as_u8(l[k])
            /\ Len(l) = Cardinality(SetBits(b))
            /\ b = 0 => l = <<>>
            /\ b = 7 => l = <<"R0", "R1", "R2">>
            /\ b = 32768 => l = <<"PC">>
            /\ b = 65535 => l = AllRegisters

C9_Witness ==
    /\ Done("register_list_from_bit_array")
    /\ arg.bit_array = 65535
    /\ Len(ret.val) = 16

\* the sparse set of special-register codes
SysmCodes == {0, 1, 2, 3, 5, 6, 7, 8, 9, 16, 20}

\* a four-byte input in the MSR or MRS region of parse_branch_misc_ctrl
IsMsrMrs(input) ==
    /\ Len(input) >= 4
    /\ Top5(input) = 30
    /\ (Halfword(input, 0) \div 16) % 128 \in {56, 57, 62, 63}
    /\ Halfword(input, 1) \div 32768 = 1
    /\ (Halfword(input, 1) \div 4096) % 8 \in {0, 2}

\* C10: SpecialRegister::try_from accepts exactly the codes 0, 1, 2, 3, 5,
\* 6, 7, 8, 9, 16, 20 and rejects every other u8; a 32-bit MSR or MRS
\* encoding fails to parse when its SYSm byte is outside that set and
\* otherwise carries the special register with that numeric code.
C10_SpecialRegisterCodes ==
    /\ Done("SpecialRegister::try_from") =>
           IF arg.value \in SysmCodes
           THEN ret.tag = "Ok" /\ SpecialRegister_as_u8(ret.val) = arg.value
           ELSE ret.tag = "Err"
    /\ (ParseDone /\ IsMsrMrs(arg.input)) =>
           LET sysm == Halfword(arg.input, 1) % 256
           IN  IF sysm \in SysmCodes
               THEN /\ ret.tag = "Ok"
                    /\ ret.val.operation.op \in {"MSRReg", "MRS"}
                    /\ SpecialRegister_as_u8(ret.val.operation.sysm) = sysm
               ELSE ret.tag = "Err"

C10_Witness ==
    /\ ParseDone
    /\ IsMsrMrs(arg.input)
    /\ Halfword(arg.input, 1) % 256 = 4
    /\ ret.tag = "Err"

(***************************************************************************)
(* A fourth caller, for the 16-bit dispatch tree: it calls parse on the    *)
(* two bytes of a halfword, for every halfword.                            *)
(***************************************************************************)
InitHalfword ==
    /\ pc = "call"
    /\ fn = "parse"
    /\ \E h \in 0..65535 : arg = [input |-> Bytes(h)]
    /\ ret = Pending

NextHalfword == Parse

SpecHalfword == InitHalfword /\ [][NextHalfword]_vars

\* the halfword a two-byte call of parse was given
TheHalfword == Halfword(arg.input, 0)

\* parse returned a 16-bit instruction with operation o
Parsed16(o) == ret = Ok([width |-> "Bit16", operation |-> o])

(***************************************************************************)
(* C11.  In the conditional-branch group (bits 15..12 = 1101) the nibble   *)
(* in bits 11..8 decides: 14 always fails, 15 gives SVC with the low       *)
(* eight bits as its immediate, and 0..13 give a B whose condition has     *)
(* that numeric code; the group never gives a B with condition code 14     *)
(* and fails for no nibble other than 14.                                  *)
(***************************************************************************)
CondNibble == (TheHalfword \div 256) % 16

InCondBranchGroup == TheHalfword \div 4096 = 13

C11_ConditionalBranchGroup ==
    (ParseDone /\ Len(arg.input) = 2 /\ InCondBranchGroup) =>
        /\ CondNibble = 14 => ret = Err(Unit)
        /\ CondNibble = 15 =>
               Parsed16([op |-> "SVC", imm |-> U32(TheHalfword % 256)])
        /\ CondNibble <= 13 =>
               /\ ret.tag = "Ok"
               /\ ret.val.width = "Bit16"
               /\ ret.val.operation.op = "B"
               /\ ret.val.operation.cond # "None"
               /\ Condition_as_u8(ret.val.operation.cond) = CondNibble

\* the halfword 0xDE2A (nibble 14) has been rejected
C11_Witness ==
    ParseDone /\ arg.input = <<42, 222>> /\ ret = Err(Unit)

(***************************************************************************)
(* C12.  In the shift-left-immediate encoding (bits 15..11 = 00000) a      *)
(* 5-bit shift amount (bits 10..6) of zero gives the flag-setting          *)
(* register move of bits 5..3 into bits 2..0, and an amount of 1..31       *)
(* gives LSLImm with that amount; LSLImm with amount 0 is never returned.  *)
(***************************************************************************)
Imm5 == (TheHalfword \div 64) % 32

Low3At(k) == RegOf((TheHalfword \div (2 ^ k)) % 8)

C12_LslZeroIsMov ==
    (ParseDone /\ Len(arg.input) = 2) =>
        /\ (TheHalfword \div 2048 = 0 /\ Imm5 = 0) =>
               Parsed16([op |-> "MOVReg", set_flags |-> TRUE,
                         m |-> Low3At(3), d |-> Low3At(0)])
        /\ (TheHalfword \div 2048 = 0 /\ Imm5 > 0) =>
               Parsed16([op |-> "LSLImm", imm |-> U32(Imm5),
                         m |-> Low3At(3), d |-> Low3At(0)])
        /\ (ret.tag = "Ok" /\ ret.val.operation.op = "LSLImm") =>
               ret.val.operation.imm # U32(0)

\* the halfword 0x0011 (amount 0, Rm = R2, Rd = R1) has been decoded
C12_Witness ==
    /\ ParseDone
    /\ arg.input = <<17, 0>>
    /\ Parsed16([op |-> "MOVReg", set_flags |-> TRUE, m |-> "R2", d |-> "R1"])

(***************************************************************************)
(* C13.  In the special-data ADD encoding (bits 15..8 = 01000100), with    *)
(* Rm = bits 6..3 and Rdn = bit 7 : bits 2..0: Rm = SP gives the           *)
(* add-SP-to-register form with destination Rdn; otherwise Rdn = SP gives  *)
(* the add-register-to-SP form with destination SP and operand Rm; with    *)
(* neither SP it is ADDReg with m = Rm and n = d = Rdn, so this encoding   *)
(* never gives an ADDReg that has SP as an operand.                        *)
(***************************************************************************)
InSpecialAdd == TheHalfword \div 256 = 68

SpecialRm == RegOf((TheHalfword \div 8) % 16)

SpecialRdn == RegOf(8 * ((TheHalfword \div 128) % 2) + (TheHalfword % 8))

C13_SpecialAddForms ==
    (ParseDone /\ Len(arg.input) = 2 /\ InSpecialAdd) =>
        /\ SpecialRm = "SP" =>
               Parsed16([op |-> "ADDRegSP", d |-> SpecialRdn, m |-> SpecialRdn])
        /\ (SpecialRm # "SP" /\ SpecialRdn = "SP") =>
               Parsed16([op |-> "ADDRegSP", d |-> "SP", m |-> SpecialRm])
        /\ (SpecialRm # "SP" /\ SpecialRdn # "SP") =>
               Parsed16([op |-> "ADDReg", m |-> SpecialRm,
                         n |-> SpecialRdn, d |-> SpecialRdn])
        /\ (ret.tag = "Ok" /\ ret.val.operation.op = "ADDReg") =>
               /\ ret.val.operation.m # "SP"
               /\ ret.val.operation.n # "SP"

\* the halfword 0x4495 (Rm = R2, Rdn = SP) has been decoded
C13_Witness ==
    /\ ParseDone
    /\ arg.input = <<149, 68>>
    /\ Parsed16([op |-> "ADDRegSP", d |-> "SP", m |-> "R2"])

(***************************************************************************)
(* C14.  In the hint sub-group (bits 15..8 = 10111111) a halfword whose    *)
(* low four bits are not zero is rejected; with them zero the selector in  *)
(* bits 7..4 gives NOP for 0, YIELD for 1, WFE for 2, WFI for 3 and SEV    *)
(* for 4, and every other selector is rejected.                            *)
(***************************************************************************)
InHintGroup == TheHalfword \div 256 = 191

HintSelector == (TheHalfword \div 16) % 16

HintOf(selector) ==
    CASE selector = 0 -> Ok([width |-> "Bit16", operation |-> [op |-> "NOP"]])
      [] selector = 1 -> Ok([width |-> "Bit16", operation |-> [op |-> "YIELD"]])
      [] selector = 2 -> Ok([width |-> "Bit16", operation |-> [op |-> "WFE"]])
      [] selector = 3 -> Ok([width |-> "Bit16", operation |-> [op |-> "WFI"]])
      [] selector = 4 -> Ok([width |-> "Bit16", operation |-> [op |-> "SEV"]])
      [] OTHER -> Err(Unit)

C14_HintSelectors ==
    (ParseDone /\ Len(arg.input) = 2 /\ InHintGroup) =>
        /\ TheHalfword % 16 # 0 => ret = Err(Unit)
        /\ TheHalfword % 16 = 0 => ret = HintOf(HintSelector)

(***************************************************************************)
(* C15.  Every 32-bit instruction parse returns is MSRReg, MRS, a barrier  *)
(* (DSB, DMB, ISB, with a 4-bit option) or BL.  A word with bits 28..27    *)
(* other than 10 or with bit 15 clear fails, so a first halfword whose top *)
(* five bits are 11101 or 11111 always fails; and the reserved pattern     *)
(* op2 = 111 (bits 14..12) with op1 = 1111111 (bits 26..20) fails.         *)
(***************************************************************************)
Supported32 == {"MSRReg", "MRS", "DSB", "DMB", "ISB", "BL"}

\* a four-byte (or longer) input in the 32-bit class
Word32Given == Len(arg.input) >= 4 /\ Top5(arg.input) \in {29, 30, 31}

\* bits 28..27 of the word are bits 12..11 of the first halfword
Bits28_27 == (Halfword(arg.input, 0) \div 2048) % 4

Bit15 == Halfword(arg.input, 1) \div 32768

Op1_32 == (Halfword(arg.input, 0) \div 16) % 128

Op2_32 == (Halfword(arg.input, 1) \div 4096) % 8

C15_Supported32 ==
    ParseDone =>
        /\ (ret.tag = "Ok" /\ ret.val.width = "Bit32") =>
               /\ ret.val.operation.op \in Supported32
               /\ ret.val.operation.op \in {"DSB", "DMB", "ISB"} =>
                      ret.val.operation.option \in 0..15
        /\ (Word32Given /\ (Bits28_27 # 2 \/ Bit15 # 1)) => ret = Err(Unit)
        /\ (Len(arg.input) >= 2 /\ Top5(arg.input) \in {29, 31}) =>
               ret = Err(Unit)
        /\ (Word32Given /\ Op2_32 = 7 /\ Op1_32 = 127) => ret = Err(Unit)

\* the word F7F0 F000 (op1 = 1111111, op2 = 111, bit 15 set) was rejected
C15_Witness ==
    /\ ParseDone
    /\ arg.input = <<240, 247, 0, 240>>
    /\ Bits28_27 = 2 /\ Bit15 = 1
    /\ ret = Err(Unit)

(***************************************************************************)
(* C16.  A failed parse reports why it failed: the returned error tells a  *)
(* truncated input (too few bytes for the classified width) from an        *)
(* unsupported or undefined encoding and from an invalid special-register  *)
(* code, so failures of different causes return different error values.    *)
(***************************************************************************)
FailureCause(input) ==
    IF Len(input) < 2 \/ (Top5(input) \in {29, 30, 31} /\ Len(input) < 4)
    THEN "Truncated"
    ELSE IF IsMsrMrs(input) /\ Halfword(input, 1) % 256 \notin SysmCodes
         THEN "InvalidSpecialRegister"
         ELSE "UnsupportedEncoding"

\* one failing input of each cause: an empty slice, the word E800 0000, and
\* MSR with the SYSm byte 4
FailingSamples == {<< >>, <<0, 232, 0, 0>>, <<128, 243, 4, 136>>}

C16_FailureCauseReported ==
    (ParseDone /\ ret.tag = "Err") =>
        \A other \in FailingSamples :
            FailureCause(other) # FailureCause(arg.input) =>
                parse(other) # ret

(***************************************************************************)
(* C18.  The 16-bit branches carry a pre-scaled, sign-extended offset: a   *)
(* conditional B (condition 0..13) carries imm8 * 2 sign-extended from 9   *)
(* bits, and the unconditional B (bits 15..11 = 11100) carries imm11 * 2   *)
(* sign-extended from 12 bits with the condition None; so an offset is     *)
(* even and, read as a signed 32-bit value, lies in -256..254 or in        *)
(* -2048..2046.                                                            *)
(***************************************************************************)
\* v, a value of `bits` bits, read as a two's-complement number
SignedFrom(v, bits) == IF v >= 2 ^ (bits - 1) THEN v - 2 ^ bits ELSE v

CondOffset == SignedFrom((TheHalfword % 256) * 2, 9)

UncondOffset == SignedFrom((TheHalfword % 2048) * 2, 12)

C18_BranchOffsets ==
    (ParseDone /\ Len(arg.input) = 2) =>
        /\ (InCondBranchGroup /\ CondNibble <= 13) =>
               /\ ret.tag = "Ok"
               /\ ret.val.operation.op = "B"
               /\ SignedOf(ret.val.operation.imm) = CondOffset
               /\ ret.val.operation.imm[0] = 0
               /\ SignedOf(ret.val.operation.imm) \in -256..254
        /\ (TheHalfword \div 2048 = 28) =>
               /\ ret.tag = "Ok"
               /\ ret.val.operation.op = "B"
               /\ ret.val.operation.cond = "None"
               /\ SignedOf(ret.val.operation.imm) = UncondOffset
               /\ ret.val.operation.imm[0] = 0
               /\ SignedOf(ret.val.operation.imm) \in -2048..2046

\* the halfword 0xD180 (BNE, imm8 = 0x80) has been decoded to the offset -256
C18_Witness ==
    /\ ParseDone
    /\ arg.input = <<128, 209>>
    /\ ret.tag = "Ok"
    /\ ret.val.operation.op = "B"
    /\ ret.val.operation.cond = "NE"
    /\ SignedOf(ret.val.operation.imm) = -256

(***************************************************************************)
(* C19.  Unsigned immediates are carried already multiplied by the access  *)
(* size: LDRLiteral, ADR, ADDImmSP (Rd = SP + imm) and the SP-relative     *)
(* LDR/STR carry imm8 * 4 (0..1020); ADD/SUB SP, SP, imm carry imm7 * 4    *)
(* (0..508); the register-relative LDR/STR carry imm5 * 4, LDRH/STRH       *)
(* imm5 * 2 and LDRB/STRB imm5, with imm5 = bits 10..6.  The SP-relative   *)
(* LDR/STR decode to the same operation as the register-relative ones,     *)
(* with base SP.                                                           *)
(***************************************************************************)
TopFive == TheHalfword \div 2048

Imm8 == TheHalfword % 256

Imm7 == TheHalfword % 128

\* parse returned the 16-bit operation named o, carrying the immediate n
Carries(o, n) ==
    /\ ret.tag = "Ok"
    /\ ret.val.width = "Bit16"
    /\ ret.val.operation.op = o
    /\ ret.val.operation.imm = U32(n)

\* ... with the base register b and the transfer register in bits `k+2..k`
CarriesAt(o, n, b, k) ==
    /\ Carries(o, n)
    /\ ret.val.operation.n = b
    /\ ret.val.operation.t = Low3At(k)

C19_ScaledImmediates ==
    (ParseDone /\ Len(arg.input) = 2) =>
        /\ TopFive = 9 => Carries("LDRLiteral", Imm8 * 4)
        /\ TopFive = 20 => Carries("ADR", Imm8 * 4)
        /\ TopFive = 21 =>
               Carries("ADDImmSP", Imm8 * 4) /\ ret.val.operation.d = Low3At(8)
        /\ TopFive = 18 => CarriesAt("STRImm", Imm8 * 4, "SP", 8)
        /\ TopFive = 19 => CarriesAt("LDRImm", Imm8 * 4, "SP", 8)
        /\ TheHalfword \div 128 = 352 =>
               Carries("ADDImmSP", Imm7 * 4) /\ ret.val.operation.d = "SP"
        /\ TheHalfword \div 128 = 353 => Carries("SUBImmSP", Imm7 * 4)
        /\ TopFive = 12 => CarriesAt("STRImm", Imm5 * 4, Low3At(3), 0)
        /\ TopFive = 13 => CarriesAt("LDRImm", Imm5 * 4, Low3At(3), 0)
        /\ TopFive = 14 => CarriesAt("STRBImm", Imm5, Low3At(3), 0)
        /\ TopFive = 15 => CarriesAt("LDRBImm", Imm5, Low3At(3), 0)
        /\ TopFive = 16 => CarriesAt("STRHImm", Imm5 * 2, Low3At(3), 0)
        /\ TopFive = 17 => CarriesAt("LDRHImm", Imm5 * 2, Low3At(3), 0)

\* the halfword 0x4AFF (LDR R2, [PC, #1020]) has been decoded
C19_Witness ==
    /\ ParseDone
    /\ arg.input = <<255, 74>>
    /\ Parsed16([op |-> "LDRLiteral", t |-> "R2", imm |-> U32(1020)])

(***************************************************************************)
(* C20.  Register lists: PUSH lists register i (0..7) exactly when bit i   *)
(* is set, and LR exactly when bit 8 is set; POP is the same with PC in    *)
(* place of LR; LDM and STM list exactly the registers of the low eight    *)
(* bits, with the base register in bits 10..8.  No list holds R8..R12 or   *)
(* SP, PUSH never lists PC, POP never lists LR, and every list is in       *)
(* strictly ascending register order.                                      *)
(***************************************************************************)
ListSet(l) == {l[i] : i \in 1..Len(l)}

Ascending(l) ==
    \A i \in 1..(Len(l) - 1) : Register_as_u8(l[i]) < Register_as_u8(l[i + 1])

HalfwordBit(k) == (TheHalfword \div (2 ^ k)) % 2

LowRegisters == {RegOf(i) : i \in {j \in 0..7 : HalfwordBit(j) = 1}}

ExtraRegister(r) == IF HalfwordBit(8) = 1 THEN {r} ELSE {}

\* parse returned the 16-bit operation named o with exactly the registers rs
Lists(o, rs) ==
    /\ ret.tag = "Ok"
    /\ ret.val.width = "Bit16"
    /\ ret.val.operation.op = o
    /\ ListSet(ret.val.operation.reg_list) = rs
    /\ Ascending(ret.val.operation.reg_list)

C20_RegisterLists ==
    (ParseDone /\ Len(arg.input) = 2) =>
        /\ TheHalfword \div 512 = 90 =>
               Lists("PUSH", LowRegisters \cup ExtraRegister("LR"))
        /\ TheHalfword \div 512 = 94 =>
               Lists("POP", LowRegisters \cup ExtraRegister("PC"))
        /\ TopFive = 24 =>
               Lists("STM", LowRegisters) /\ ret.val.operation.n = Low3At(8)
        /\ TopFive = 25 =>
               Lists("LDM", LowRegisters) /\ ret.val.operation.n = Low3At(8)
        /\ (ret.tag = "Ok" /\ ret.val.operation.op \in {"PUSH", "POP", "STM", "LDM"}) =>
               LET rs == ListSet(ret.val.operation.reg_list)
               IN  /\ rs \cap {"R8", "R9", "R10", "R11", "R12", "SP"} = {}
                   /\ ret.val.operation.op = "PUSH" => "PC" \notin rs
                   /\ ret.val.operation.op = "POP" => "LR" \notin rs
                   /\ ret.val.operation.op \in {"STM", "LDM"} =>
                          rs \cap {"LR", "PC"} = {}

\* the halfword 0xB583 (PUSH {R0, R1, R7, LR}) has been decoded
C20_Witness ==
    /\ ParseDone
    /\ arg.input = <<131, 181>>
    /\ Parsed16([op |-> "PUSH", reg_list |-> <<"R0", "R1", "R7", "LR">>])

(***************************************************************************)
(* A caller that passes parse any of the slices of the two callers above:  *)
(* the sampled slices of every length and the two bytes of every halfword. *)
(***************************************************************************)
InitAnySlice == Init \/ InitHalfword

SpecAnySlice == InitAnySlice /\ [][Next]_vars

(***************************************************************************)
(* C21.  parse is total and never panics: for every slice it returns Ok    *)
(* or Err.  Every unwrapped register conversion receives a value in 0..15, *)
(* every sign_extend receives a valid_bits within 1..width, no shifted     *)
(* 16-bit immediate loses bits, and the major opcodes 111010..111111 are   *)
(* always routed to the 32-bit path, so the default arm of the first-level *)
(* 16-bit dispatch is never reached from parse.                            *)
(***************************************************************************)
RegisterNames == ListSet(AllRegisters)

\* no register of the operation came from a failed conversion, and a
\* sign-extended offset is a u32
NoPanicInside(o) ==
    /\ \A f \in DOMAIN o \cap {"m", "n", "d", "t"} : o[f] \in RegisterNames
    /\ "reg_list" \in DOMAIN o => ListSet(o.reg_list) \subseteq RegisterNames
    /\ o.op \in {"B", "BL"} => o.imm \in [BitIdx32 -> {0, 1}]

\* the first halfword, of a slice that has one
FirstHalfword == Halfword(arg.input, 0)

C22_EmptyRegisterList ==
    (ParseDone /\ Len(arg.input) = 2) =>
        /\ TheHalfword = 90 * 512 => Parsed16([op |-> "PUSH", reg_list |-> << >>])
        /\ TheHalfword = 94 * 512 => Parsed16([op |-> "POP", reg_list |-> << >>])
        /\ (TopFive = 24 /\ Imm8 = 0) =>
               Parsed16([op |-> "STM", n |-> Low3At(8), reg_list |-> << >>])
        /\ (TopFive = 25 /\ Imm8 = 0) =>
               Parsed16([op |-> "LDM", n |-> Low3At(8), reg_list |-> << >>])

\* the halfword 0xC300 (STM R3!, {}) has been decoded
C22_Witness ==
    /\ ParseDone
    /\ arg.input = <<0, 195>>
    /\ Parsed16([op |-> "STM", n |-> "R3", reg_list |-> << >>])

====
